---- MODULE Spec2Model ----
(***************************************************************************)
(* Fixed-window rate limiter: the counter-store backends of src/storage/   *)
(* (the StorageBackend trait of src/storage/mod.rs and its six             *)
(* implementations), the admission engine and request handler of           *)
(* src/lib.rs over them, sequentially and under concurrent callers, and    *)
(* the RedisStorage::increment of src/storage.rs.                          *)
(*                                                                         *)
(* A counter is a record [present, count, expire_at].  Time is the whole   *)
(* second returned by get_current_timestamp / NOW(); every backend call    *)
(* happens at one instant `now`.  For the native-TTL stores (Redis,        *)
(* Memcached) expire_at is the instant at which the server stops serving   *)
(* the key: an entry with expire_at <= now does not exist for any command, *)
(* whether or not the server has freed it yet.                             *)
(***************************************************************************)
EXTENDS Integers, Sequences, FiniteSets, TLC

\* ------------------------------------------------------------- bounds
MaxTime == 2
MaxWindow == 2
MaxLimit == 2
MaxCount == 2
NumProcs == 3
MaxFaults == 1

Keys == {"k1", "k2"}
Backends == {"memory", "sqlite", "mysql", "postgresql", "redis", "memcached"}
Windows == 0..MaxWindow
Limits == 1..MaxLimit
Procs == 1..NumProcs

\* ------------------------------------------------------------- values
Absent == [present |-> FALSE, count |-> 0, expire_at |-> 0]

Counter(c, e) == [present |-> TRUE, count |-> c, expire_at |-> e]

Ok(v) == [ok |-> TRUE, val |-> v]

Err == [ok |-> FALSE, val |-> 0]

UnwrapOr(r, d) == IF r.ok THEN r.val ELSE d

\* An entry the store still serves at instant t.
Live(e, t) == e.present /\ e.expire_at > t

\* ------------------------------------------------------------- in-memory
MemoryGetAtBoundary(s, k, t) ==
    IF s[k].present /\ s[k].expire_at >= t THEN Ok(s[k].count) ELSE Ok(0)

MemoryGetIgnoresExpiry(s, k, t) ==
    IF s[k].present THEN Ok(s[k].count) ELSE Ok(0)

MemoryGet(s, k, t) ==
    IF s[k].present /\ s[k].expire_at > t THEN Ok(s[k].count) ELSE Ok(0)

MemoryIncrementKeepsCount(s, k, expire, t) ==
    [ok |-> TRUE,
     store |-> [s EXCEPT ![k] =
        IF s[k].present THEN Counter(s[k].count + 1, t + expire)
        ELSE Counter(1, t + expire)]]

MemoryIncrement(s, k, expire, t) ==
    LET expire_at == t + expire IN
    [ok |-> TRUE,
     store |-> [s EXCEPT ![k] =
        IF s[k].present /\ s[k].expire_at > t
        THEN Counter(s[k].count + 1, expire_at)
        ELSE Counter(1, expire_at)]]

MemoryDeleteClears(s, k) ==
    [ok |-> TRUE, store |-> [j \in DOMAIN s |-> Absent]]

MemoryDelete(s, k) == [ok |-> TRUE, store |-> [s EXCEPT ![k] = Absent]]

MemoryCleanupClears(s, t) ==
    [ok |-> TRUE, store |-> [k \in DOMAIN s |-> Absent]]

MemoryCleanupKeepsBoundary(s, t) ==
    [ok |-> TRUE,
     store |-> [k \in DOMAIN s |->
        IF s[k].present /\ s[k].expire_at >= t THEN s[k] ELSE Absent]]

MemoryCleanupExpired(s, t) ==
    [ok |-> TRUE,
     store |-> [k \in DOMAIN s |->
        IF s[k].present /\ s[k].expire_at > t THEN s[k] ELSE Absent]]

\* ------------------------------------------------------------- SQLite
\* fail = "io": the statement or the connection reports an error and nothing
\* is written; fail = "none": the call goes through.
SQLiteGetAtBoundary(s, k, t, fail) ==
    IF fail # "none" THEN Err
    ELSE IF s[k].present /\ s[k].expire_at >= t THEN Ok(s[k].count) ELSE Ok(0)

SQLiteGet(s, k, t, fail) ==
    IF fail # "none" THEN Err
    ELSE IF s[k].present /\ s[k].expire_at > t THEN Ok(s[k].count) ELSE Ok(0)

SQLiteIncrement(s, k, expire, t, fail) ==
    LET expire_at == t + expire IN
    IF fail # "none" THEN [ok |-> FALSE, store |-> s]
    ELSE [ok |-> TRUE,
          store |-> [s EXCEPT ![k] =
             IF ~s[k].present THEN Counter(1, expire_at)
             ELSE Counter(IF s[k].expire_at > t THEN s[k].count + 1 ELSE 1,
                          expire_at)]]

SQLiteDelete(s, k, fail) ==
    IF fail # "none" THEN [ok |-> FALSE, store |-> s]
    ELSE [ok |-> TRUE, store |-> [s EXCEPT ![k] = Absent]]

SQLiteCleanupExpired(s, t, fail) ==
    IF fail # "none" THEN [ok |-> FALSE, store |-> s]
    ELSE [ok |-> TRUE,
          store |-> [k \in DOMAIN s |->
             IF s[k].present /\ s[k].expire_at <= t THEN Absent ELSE s[k]]]

\* ------------------------------------------------------------- MySQL
\* get sends its statement as a text query and passes no parameter: the `?`
\* is never bound to the key, the server rejects the statement, and the call
\* returns DatabaseError for every key and every table content.
MySQLGet(s, k, t, fail) == Err

MySQLIncrement(s, k, expire, t, fail) ==
    IF fail # "none" THEN [ok |-> FALSE, store |-> s]
    ELSE [ok |-> TRUE,
          store |-> [s EXCEPT ![k] =
             IF ~s[k].present THEN Counter(1, t + expire)
             ELSE Counter(IF s[k].expire_at > t THEN s[k].count + 1 ELSE 1,
                          t + expire)]]

MySQLDelete(s, k, fail) ==
    IF fail # "none" THEN [ok |-> FALSE, store |-> s]
    ELSE [ok |-> TRUE, store |-> [s EXCEPT ![k] = Absent]]

MySQLCleanupExpired(s, t, fail) ==
    IF fail # "none" THEN [ok |-> FALSE, store |-> s]
    ELSE [ok |-> TRUE,
          store |-> [k \in DOMAIN s |->
             IF s[k].present /\ s[k].expire_at <= t THEN Absent ELSE s[k]]]

\* ------------------------------------------------------------- PostgreSQL
PostgresGet(s, k, t, fail) ==
    IF fail # "none" THEN Err
    ELSE IF s[k].present /\ s[k].expire_at > t THEN Ok(s[k].count) ELSE Ok(0)

PostgresIncrement(s, k, expire, t, fail) ==
    IF fail # "none" THEN [ok |-> FALSE, store |-> s]
    ELSE [ok |-> TRUE,
          store |-> [s EXCEPT ![k] =
             IF ~s[k].present THEN Counter(1, t + expire)
             ELSE Counter(IF s[k].expire_at > t THEN s[k].count + 1 ELSE 1,
                          t + expire)]]

PostgresDelete(s, k, fail) ==
    IF fail # "none" THEN [ok |-> FALSE, store |-> s]
    ELSE [ok |-> TRUE, store |-> [s EXCEPT ![k] = Absent]]

PostgresCleanupExpired(s, t, fail) ==
    IF fail # "none" THEN [ok |-> FALSE, store |-> s]
    ELSE [ok |-> TRUE,
          store |-> [k \in DOMAIN s |->
             IF s[k].present /\ s[k].expire_at <= t THEN Absent ELSE s[k]]]

\* ------------------------------------------------------------- Redis
\* GET: the value of a key the server still serves, nil otherwise.
RedisGet(s, k, t, fail) ==
    IF fail # "none" THEN Err
    ELSE IF Live(s[k], t) THEN Ok(s[k].count) ELSE Ok(0)

\* MULTI; INCR key; EXPIRE key expire; EXEC: one unit.  INCR creates the key
\* at 1 when the server does not serve it, EXPIRE sets the deadline to
\* t + expire (EXPIRE 0 is a deadline of t: the key is gone at once).
RedisIncrement(s, k, expire, t, fail) ==
    IF fail # "none" THEN [ok |-> FALSE, store |-> s]
    ELSE LET incr == IF Live(s[k], t) THEN s[k].count + 1 ELSE 1 IN
         [ok |-> TRUE, store |-> [s EXCEPT ![k] = Counter(incr, t + expire)]]

RedisDelete(s, k, fail) ==
    IF fail # "none" THEN [ok |-> FALSE, store |-> s]
    ELSE [ok |-> TRUE, store |-> [s EXCEPT ![k] = Absent]]

RedisCleanupExpired(s) == [ok |-> TRUE, store |-> s]

\* ------------------------------------------------------------- Memcached
MemcachedGet(s, k, t, fail) ==
    IF fail # "none" THEN Err
    ELSE IF Live(s[k], t) THEN Ok(s[k].count) ELSE Ok(0)

\* client.add(key, value, expire_time): stores only when the server does not
\* serve the key.
McAddOverwrites(e, value, expire_time, t) == Counter(value, expire_time)

McAdd(e, value, expire_time, t) ==
    IF Live(e, t) THEN e ELSE Counter(value, expire_time)

\* client.increment(key, amount, initial, expire_time): adds amount to a key
\* the server serves and leaves its expiry alone; initial and expire_time are
\* used only to create a key it does not serve.
McIncr(e, amount, initial, expire_time, t) ==
    IF Live(e, t) THEN [e EXCEPT !.count = @ + amount]
    ELSE Counter(initial, expire_time)

\* fail is "none", "add" (the add call fails; its result is dropped) or
\* "incr" (the increment call fails after the add was applied).
MemcachedIncrement(s, k, expire, t, fail) ==
    LET expire_time == t + expire
        added == IF fail = "add" THEN s[k] ELSE McAdd(s[k], 0, expire_time, t)
    IN  IF fail = "incr"
        THEN [ok |-> FALSE, store |-> [s EXCEPT ![k] = added]]
        ELSE [ok |-> TRUE,
              store |-> [s EXCEPT ![k] = McIncr(added, 1, 0, expire_time, t)]]

MemcachedDelete(s, k, fail) ==
    IF fail # "none" THEN [ok |-> FALSE, store |-> s]
    ELSE [ok |-> TRUE, store |-> [s EXCEPT ![k] = Absent]]

MemcachedCleanupExpired(s) == [ok |-> TRUE, store |-> s]

\* ------------------------------------------------------------- StorageBackend
\* The faults a call on backend b can meet.  The in-memory store does no I/O
\* and the native-TTL cleanups issue no command.
FailModes(b, op) ==
    IF b = "memory" THEN {"none"}
    ELSE IF op = "cleanup_expired" /\ b \in {"redis", "memcached"} THEN {"none"}
    ELSE IF op = "increment" /\ b = "memcached" THEN {"none", "add", "incr"}
    ELSE {"none", "io"}

Faulty(fail) == IF fail = "none" THEN 0 ELSE 1

StorageGet(b, s, k, t, fail) ==
    CASE b = "memory" -> MemoryGet(s, k, t)
      [] b = "sqlite" -> SQLiteGet(s, k, t, fail)
      [] b = "mysql" -> MySQLGet(s, k, t, fail)
      [] b = "postgresql" -> PostgresGet(s, k, t, fail)
      [] b = "redis" -> RedisGet(s, k, t, fail)
      [] b = "memcached" -> MemcachedGet(s, k, t, fail)

StorageIncrement(b, s, k, expire, t, fail) ==
    CASE b = "memory" -> MemoryIncrement(s, k, expire, t)
      [] b = "sqlite" -> SQLiteIncrement(s, k, expire, t, fail)
      [] b = "mysql" -> MySQLIncrement(s, k, expire, t, fail)
      [] b = "postgresql" -> PostgresIncrement(s, k, expire, t, fail)
      [] b = "redis" -> RedisIncrement(s, k, expire, t, fail)
      [] b = "memcached" -> MemcachedIncrement(s, k, expire, t, fail)

StorageDelete(b, s, k, fail) ==
    CASE b = "memory" -> MemoryDelete(s, k)
      [] b = "sqlite" -> SQLiteDelete(s, k, fail)
      [] b = "mysql" -> MySQLDelete(s, k, fail)
      [] b = "postgresql" -> PostgresDelete(s, k, fail)
      [] b = "redis" -> RedisDelete(s, k, fail)
      [] b = "memcached" -> MemcachedDelete(s, k, fail)

StorageCleanupExpired(b, s, t, fail) ==
    CASE b = "memory" -> MemoryCleanupExpired(s, t)
      [] b = "sqlite" -> SQLiteCleanupExpired(s, t, fail)
      [] b = "mysql" -> MySQLCleanupExpired(s, t, fail)
      [] b = "postgresql" -> PostgresCleanupExpired(s, t, fail)
      [] b = "redis" -> RedisCleanupExpired(s)
      [] b = "memcached" -> MemcachedCleanupExpired(s)

\* ------------------------------------------------------------- state
VARIABLES
    backend,              \* the configured store
    requests_per_second,  \* RateLimiter.requests_per_second: the limit
    window_size,          \* RateLimiter.window_size: the window, in seconds
    now,                  \* the clock, whole seconds
    store,                \* key -> counter
    last,                 \* the call that just returned: inputs, result, and
                          \* the key's counter and run length before the call
    incs,                 \* key -> successful increments since the key was
                          \* last not served, 0 once anything else wrote it
    faults,               \* I/O faults met so far
    run,                  \* key -> fault-free admit calls since the key was
                          \* last not served, 0 once a call met a store error
    lastAllow,            \* key -> instant of the last Allow, -1 if none
    pc,                   \* concurrent callers: position of each
    expire_time,          \* concurrent callers: expire_time local of each
    mutex,                \* MemoryStorage.store lock: 0 free, else the holder
    sqlite_store,         \* the SQLite table driven in step with the map
    uncleaned,            \* a second in-memory map, given the same calls as
                          \* store except cleanup_expired
    storage_module,       \* which RedisStorage is compiled in: the one of
                          \* storage/redis.rs or the one of storage.rs
    storage_lock,         \* RateLimiter.storage lock: 0 free, else the holder
    req_key,              \* concurrent callers: the key each asks about
    count_read,           \* concurrent callers: current_count local of each
    verdict,              \* concurrent callers: "none", "allow" or "deny"
    call_ok,              \* concurrent callers: no store command of the
                          \* caller has failed
    start_count           \* key -> live count when the callers started

vars == <<backend, requests_per_second, window_size, now, store, last, incs,
          faults, run, lastAllow, pc, expire_time, mutex, sqlite_store,
          storage_module, uncleaned, storage_lock, req_key, count_read, verdict,
          call_ok, start_count>>

\* The state of one RateLimiter's concurrent callers.
engine == <<storage_lock, req_key, count_read, verdict, call_ok,
            start_count>>

others == <<sqlite_store, storage_module, uncleaned, engine>>

config == <<backend, requests_per_second, window_size>>

NoCall ==
    [op |-> "none", key |-> "k1", expire |-> 0, fail |-> "none",
     ifail |-> "none", ok |-> TRUE, val |-> 0, limited |-> FALSE,
     calls |-> <<>>, pre |-> Absent, run |-> 0, get_ok |-> TRUE,
     inc_ok |-> TRUE, status_code |-> 0, ret |-> "none",
     sqlite |-> Ok(0),
     twin |-> [val |-> 0, limited |-> FALSE, pre |-> Absent]]

EmptyStore == [k \in Keys |-> Absent]

\* No second table, the storage/ module tree, and no caller inside the engine.
InitOthers ==
    /\ sqlite_store = EmptyStore
    /\ uncleaned = EmptyStore
    /\ storage_module = "storage/redis.rs"
    /\ storage_lock = 0
    /\ req_key = [p \in Procs |-> "k1"]
    /\ count_read = [p \in Procs |-> 0]
    /\ verdict = [p \in Procs |-> "none"]
    /\ call_ok = [p \in Procs |-> TRUE]
    /\ start_count = [k \in Keys |-> 0]

\* ------------------------------------------------------------- store calls
\* The contract's four operations called directly on the configured backend.
InitStore ==
    /\ backend \in Backends
    /\ requests_per_second = 1
    /\ window_size = 1
    /\ now = 0
    /\ store = EmptyStore
    /\ last = NoCall
    /\ incs = [k \in Keys |-> 0]
    /\ faults = 0
    /\ run = [k \in Keys |-> 0]
    /\ lastAllow = [k \in Keys |-> -1]
    /\ pc = [p \in Procs |-> "idle"]
    /\ expire_time = [p \in Procs |-> 0]
    /\ mutex = 0
    /\ InitOthers

Tick ==
    /\ now < MaxTime
    /\ now' = now + 1
    /\ last' = NoCall
    /\ UNCHANGED <<config, others, store, incs, faults, run, lastAllow, pc,
                   expire_time, mutex>>

Get(k) ==
    \E fail \in FailModes(backend, "get") :
    \E r \in {StorageGet(backend, store, k, now, fail)} :
      /\ faults + Faulty(fail) <= MaxFaults
      /\ faults' = faults + Faulty(fail)
      /\ last' = [NoCall EXCEPT !.op = "get", !.key = k, !.fail = fail,
                                !.ok = r.ok, !.val = r.val, !.pre = store[k]]
      /\ UNCHANGED <<config, others, now, store, incs, run, lastAllow, pc,
                     expire_time, mutex>>

Increment(k) ==
    \E expire \in Windows, fail \in FailModes(backend, "increment") :
    \E r \in {StorageIncrement(backend, store, k, expire, now, fail)} :
      /\ Live(store[k], now) => store[k].count < MaxCount
      /\ faults + Faulty(fail) <= MaxFaults
      /\ faults' = faults + Faulty(fail)
      /\ store' = r.store
      /\ last' = [NoCall EXCEPT !.op = "increment", !.key = k,
                                !.expire = expire, !.fail = fail,
                                !.ok = r.ok, !.pre = store[k]]
      /\ incs' = [incs EXCEPT ![k] =
                    IF fail # "none" \/ ~r.ok THEN 0
                    ELSE IF ~Live(store[k], now) THEN 1
                    ELSE IF @ > 0 THEN @ + 1 ELSE 0]
      /\ UNCHANGED <<config, others, now, run, lastAllow, pc, expire_time, mutex>>

Delete(k) ==
    \E fail \in FailModes(backend, "delete") :
    \E r \in {StorageDelete(backend, store, k, fail)} :
      /\ faults + Faulty(fail) <= MaxFaults
      /\ faults' = faults + Faulty(fail)
      /\ store' = r.store
      /\ last' = [NoCall EXCEPT !.op = "delete", !.key = k, !.fail = fail,
                                !.ok = r.ok, !.pre = store[k]]
      /\ incs' = [incs EXCEPT ![k] = 0]
      /\ UNCHANGED <<config, others, now, run, lastAllow, pc, expire_time, mutex>>

CleanupExpired ==
    \E fail \in FailModes(backend, "cleanup_expired") :
    \E r \in {StorageCleanupExpired(backend, store, now, fail)} :
      /\ faults + Faulty(fail) <= MaxFaults
      /\ faults' = faults + Faulty(fail)
      /\ store' = r.store
      /\ last' = [NoCall EXCEPT !.op = "cleanup_expired", !.fail = fail,
                                !.ok = r.ok]
      /\ UNCHANGED <<config, others, now, incs, run, lastAllow, pc, expire_time,
                     mutex>>

NextStore ==
    \/ Tick
    \/ \E k \in Keys : Get(k)
    \/ \E k \in Keys : Increment(k)
    \/ \E k \in Keys : Delete(k)
    \/ CleanupExpired

SpecStore == InitStore /\ [][NextStore]_vars

\* ------------------------------------------------------------- admission
\* RateLimiter::is_rate_limited, under the storage lock from its first line to
\* its last: get, compare, increment when under the limit.  Errors of either
\* call are dropped (unwrap_or).  true is Deny.
IsRateLimitedFailClosed(b, s, key, t, rps, ws, gfail, ifail) ==
    LET got == StorageGet(b, s, key, t, gfail)
        current_count == UnwrapOr(got, 0)
        inc == StorageIncrement(b, s, key, ws, t, ifail)
    IN  IF ~got.ok \/ current_count >= rps
        THEN [limited |-> TRUE, store |-> s, get_ok |-> got.ok,
              inc_ok |-> TRUE, calls |-> <<"get">>]
        ELSE [limited |-> FALSE, store |-> inc.store, get_ok |-> got.ok,
              inc_ok |-> inc.ok, calls |-> <<"get", "increment">>]

IsRateLimitedRetriesGet(b, s, key, t, rps, ws, gfail, ifail) ==
    LET got == StorageGet(b, s, key, t, gfail)
        again == IF got.ok THEN got ELSE StorageGet(b, s, key, t, "none")
        current_count == UnwrapOr(again, 0)
        inc == StorageIncrement(b, s, key, ws, t, ifail)
        gets == IF got.ok THEN <<"get">> ELSE <<"get", "get">>
    IN  IF current_count >= rps
        THEN [limited |-> TRUE, store |-> s, get_ok |-> got.ok,
              inc_ok |-> TRUE, calls |-> gets]
        ELSE [limited |-> FALSE, store |-> inc.store, get_ok |-> got.ok,
              inc_ok |-> inc.ok, calls |-> gets \o <<"increment">>]

IsRateLimitedOffByOne(b, s, key, t, rps, ws, gfail, ifail) ==
    LET got == StorageGet(b, s, key, t, gfail)
        current_count == UnwrapOr(got, 0)
        inc == StorageIncrement(b, s, key, ws, t, ifail)
    IN  IF current_count > rps
        THEN [limited |-> TRUE, store |-> s, get_ok |-> got.ok,
              inc_ok |-> TRUE, calls |-> <<"get">>]
        ELSE [limited |-> FALSE, store |-> inc.store, get_ok |-> got.ok,
              inc_ok |-> inc.ok, calls |-> <<"get", "increment">>]

IsRateLimitedCountsDenied(b, s, key, t, rps, ws, gfail, ifail) ==
    LET got == StorageGet(b, s, key, t, gfail)
        current_count == UnwrapOr(got, 0)
        inc == StorageIncrement(b, s, key, ws, t, ifail)
    IN  [limited |-> current_count >= rps, store |-> inc.store,
         get_ok |-> got.ok, inc_ok |-> inc.ok,
         calls |-> <<"get", "increment">>]

IsRateLimited(b, s, key, t, rps, ws, gfail, ifail) ==
    LET got == StorageGet(b, s, key, t, gfail)
        current_count == UnwrapOr(got, 0)
        inc == StorageIncrement(b, s, key, ws, t, ifail)
    IN  IF current_count >= rps
        THEN [limited |-> TRUE, store |-> s, get_ok |-> got.ok,
              inc_ok |-> TRUE, calls |-> <<"get">>]
        ELSE [limited |-> FALSE, store |-> inc.store, get_ok |-> got.ok,
              inc_ok |-> inc.ok, calls |-> <<"get", "increment">>]

\* RateLimiter::handle past the admission decision.  ctx is the request's
\* context; status 0 is a context on which no status was set.
TooManyRequests == 429

NewContext == [status |-> 0]

HandleSetsStatusOnly(ctx, limited) ==
    IF limited
    THEN [ctx |-> [ctx EXCEPT !.status = TooManyRequests], ret |-> "Ok"]
    ELSE [ctx |-> ctx, ret |-> "Ok"]

Handle(ctx, limited) ==
    IF limited
    THEN [ctx |-> [ctx EXCEPT !.status = TooManyRequests], ret |-> "Declined"]
    ELSE [ctx |-> ctx, ret |-> "Ok"]

MaxRun == MaxLimit + 2

InitAdmit ==
    /\ backend \in Backends
    /\ requests_per_second \in Limits
    /\ window_size \in Windows
    /\ now = 0
    /\ store = EmptyStore
    /\ last = NoCall
    /\ incs = [k \in Keys |-> 0]
    /\ faults = 0
    /\ run = [k \in Keys |-> 0]
    /\ lastAllow = [k \in Keys |-> -1]
    /\ pc = [p \in Procs |-> "idle"]
    /\ expire_time = [p \in Procs |-> 0]
    /\ mutex = 0
    /\ InitOthers

\* One request from remote address k: handle calls is_rate_limited(k), from
\* lock to return, and answers.  gfail and ifail are the faults the get and
\* the increment meet; a call that is not made meets none.
Admit(k) ==
    \E gfail \in FailModes(backend, "get"),
       ifail \in FailModes(backend, "increment") :
    \E r \in {IsRateLimited(backend, store, k, now, requests_per_second,
                            window_size, gfail, ifail)} :
    \E h \in {Handle(NewContext, r.limited)} :
      LET issued == IF Len(r.calls) = 2 THEN ifail ELSE "none"
          clean == gfail = "none" /\ issued = "none" /\ r.get_ok /\ r.inc_ok
      IN
      /\ ifail = issued
      /\ faults + Faulty(gfail) + Faulty(issued) <= MaxFaults
      /\ r.store[k].count <= MaxLimit + 1
      /\ faults' = faults + Faulty(gfail) + Faulty(issued)
      /\ store' = r.store
      /\ last' = [NoCall EXCEPT !.op = "admit", !.key = k,
                                !.expire = window_size, !.fail = gfail,
                                !.ifail = issued, !.ok = clean,
                                !.limited = r.limited, !.calls = r.calls,
                                !.pre = store[k], !.run = run[k],
                                !.get_ok = r.get_ok, !.inc_ok = r.inc_ok,
                                !.status_code = h.ctx.status,
                                !.ret = h.ret]
      /\ run' = [run EXCEPT ![k] =
                   IF ~clean THEN 0
                   ELSE IF ~Live(store[k], now) THEN 1
                   ELSE IF @ = 0 THEN 0
                   ELSE IF @ < MaxRun THEN @ + 1 ELSE MaxRun]
      /\ lastAllow' = [lastAllow EXCEPT ![k] = IF r.limited THEN @ ELSE now]
      /\ UNCHANGED <<config, others, now, incs, pc, expire_time, mutex>>

NextAdmit ==
    \/ Tick
    \/ \E k \in Keys : Admit(k)

SpecAdmit == InitAdmit /\ [][NextAdmit]_vars

\* The same system with a clock that keeps moving (up to the bound) and
\* requests that keep arriving.
SpecAdmitLive ==
    /\ SpecAdmit
    /\ WF_vars(Tick)
    /\ WF_vars(\E k \in Keys : Admit(k))

\* ------------------------------------------------------------- concurrent increments
\* NumProcs callers each call increment(ConcKey, ConcWindow) once on a
\* brand-new key, through one store shared by all of them, and a get follows
\* the last of them.  ConcWindow outlasts the clock, so nothing expires.
\* The in-memory increment runs under the map's mutex; the SQL upsert is one
\* statement and the Redis MULTI/EXEC pipeline one unit; the Memcached
\* increment is two commands, add then increment, with nothing held between.
ConcKey == "k1"

ConcWindow == MaxTime + 1

InitConc ==
    /\ backend \in Backends
    /\ requests_per_second = 1
    /\ window_size = ConcWindow
    /\ now = 0
    /\ store = EmptyStore
    /\ last = NoCall
    /\ incs = [k \in Keys |-> 0]
    /\ faults = 0
    /\ run = [k \in Keys |-> 0]
    /\ lastAllow = [k \in Keys |-> -1]
    /\ pc = [p \in Procs |-> "start"]
    /\ expire_time = [p \in Procs |-> 0]
    /\ mutex = 0
    /\ InitOthers

AllDone == \A p \in Procs : pc[p] = "done"

ConcTick ==
    /\ now < MaxTime
    /\ now' = now + 1
    /\ UNCHANGED <<config, others, store, last, incs, faults, run, lastAllow, pc,
                   expire_time, mutex>>

\* self.store.lock()
MemoryLock(p) ==
    /\ backend = "memory"
    /\ pc[p] = "start"
    /\ mutex = 0
    /\ mutex' = p
    /\ pc' = [pc EXCEPT ![p] = "locked"]
    /\ UNCHANGED <<config, others, now, store, last, incs, faults, run, lastAllow,
                   expire_time>>

\* the match on the locked map, then the guard is dropped
MemoryUpdate(p) ==
    /\ backend = "memory"
    /\ pc[p] = "locked"
    /\ mutex = p
    /\ store' = MemoryIncrement(store, ConcKey, window_size, now).store
    /\ mutex' = 0
    /\ pc' = [pc EXCEPT ![p] = "done"]
    /\ UNCHANGED <<config, others, now, last, incs, faults, run, lastAllow,
                   expire_time>>

\* the upsert statement of the SQL backends; the MULTI/EXEC unit of Redis
AtomicIncrement(p) ==
    /\ backend \in {"sqlite", "mysql", "postgresql", "redis"}
    /\ pc[p] = "start"
    /\ store' = StorageIncrement(backend, store, ConcKey, window_size, now,
                                 "none").store
    /\ pc' = [pc EXCEPT ![p] = "done"]
    /\ UNCHANGED <<config, others, now, last, incs, faults, run, lastAllow,
                   expire_time, mutex>>

\* expire_time is computed, then client.add(key, 0, expire_time)
MemcachedAdd(p) ==
    /\ backend = "memcached"
    /\ pc[p] = "start"
    /\ expire_time' = [expire_time EXCEPT ![p] = now + window_size]
    /\ store' = [store EXCEPT ![ConcKey] =
                   McAdd(@, 0, now + window_size, now)]
    /\ pc' = [pc EXCEPT ![p] = "added"]
    /\ UNCHANGED <<config, others, now, last, incs, faults, run, lastAllow, mutex>>

\* client.increment(key, 1, 0, expire_time)
MemcachedIncr(p) ==
    /\ backend = "memcached"
    /\ pc[p] = "added"
    /\ store' = [store EXCEPT ![ConcKey] =
                   McIncr(@, 1, 0, expire_time[p], now)]
    /\ pc' = [pc EXCEPT ![p] = "done"]
    /\ UNCHANGED <<config, others, now, last, incs, faults, run, lastAllow,
                   expire_time, mutex>>

\* get(key) once every increment has returned
ConcGet ==
    /\ AllDone
    /\ last.op # "get"
    /\ \E r \in {StorageGet(backend, store, ConcKey, now, "none")} :
         last' = [NoCall EXCEPT !.op = "get", !.key = ConcKey, !.ok = r.ok,
                                !.val = r.val, !.pre = store[ConcKey]]
    /\ UNCHANGED <<config, others, now, store, incs, faults, run, lastAllow, pc,
                   expire_time, mutex>>

NextConc ==
    \/ ConcTick
    \/ \E p \in Procs : MemoryLock(p)
    \/ \E p \in Procs : MemoryUpdate(p)
    \/ \E p \in Procs : AtomicIncrement(p)
    \/ \E p \in Procs : MemcachedAdd(p)
    \/ \E p \in Procs : MemcachedIncr(p)
    \/ ConcGet

SpecConc == InitConc /\ [][NextConc]_vars

\* ------------------------------------------------------------- concurrent admit calls
\* NumProcs request handlers share one RateLimiter and call is_rate_limited
\* once each, caller p for key req_key[p].  The keys start absent or with a
\* live count that earlier admitted requests left, at most the limit, in a
\* window that outlasts the clock.  A call is three steps: take the storage
\* lock, get, then compare, increment when under the limit, and return, which
\* drops the lock guard.  On the in-memory backend get and increment each
\* take the map's own mutex first (MapLock) and drop it when they return.
StartStores(rps) ==
    [Keys -> {Absent} \cup {Counter(c, ConcWindow) : c \in 1..rps}]

InitRace ==
    /\ backend \in Backends
    /\ requests_per_second \in Limits
    /\ window_size = ConcWindow
    /\ now = 0
    /\ store \in StartStores(requests_per_second)
    /\ last = NoCall
    /\ incs = [k \in Keys |-> 0]
    /\ faults = 0
    /\ run = [k \in Keys |-> 0]
    /\ lastAllow = [k \in Keys |-> -1]
    /\ pc = [p \in Procs |-> "start"]
    /\ expire_time = [p \in Procs |-> 0]
    /\ mutex = 0
    /\ sqlite_store = EmptyStore
    /\ uncleaned = EmptyStore
    /\ storage_module = "storage/redis.rs"
    /\ storage_lock = 0
    /\ req_key \in [Procs -> Keys]
    /\ count_read = [p \in Procs |-> 0]
    /\ verdict = [p \in Procs |-> "none"]
    /\ call_ok = [p \in Procs |-> TRUE]
    /\ start_count = [k \in Keys |-> store[k].count]

\* let mut storage = self.storage.lock().await
AdmitLockNoWait(p) ==
    /\ pc[p] = "start"
    /\ storage_lock' = p
    /\ pc' = [pc EXCEPT ![p] = "locked"]
    /\ UNCHANGED <<config, now, store, last, incs, faults, run, lastAllow,
                   expire_time, mutex, sqlite_store, storage_module, uncleaned, req_key,
                   count_read, verdict, call_ok, start_count>>

AdmitLock(p) ==
    /\ pc[p] = "start"
    /\ storage_lock = 0
    /\ storage_lock' = p
    /\ pc' = [pc EXCEPT ![p] = "locked"]
    /\ UNCHANGED <<config, now, store, last, incs, faults, run, lastAllow,
                   expire_time, mutex, sqlite_store, storage_module, uncleaned, req_key,
                   count_read, verdict, call_ok, start_count>>

\* self.store.lock() of MemoryStorage::get and MemoryStorage::increment,
\* called by the holder of the storage lock
MapLock(p) ==
    /\ backend = "memory"
    /\ \/ pc[p] = "locked"
       \/ pc[p] = "read" /\ count_read[p] < requests_per_second
    /\ mutex = 0
    /\ mutex' = p
    /\ UNCHANGED <<config, now, store, last, incs, faults, run, lastAllow,
                   pc, expire_time, others>>

AdmitGetReleasesLock(p) ==
    /\ pc[p] = "locked"
    /\ backend = "memory" => mutex = p
    /\ mutex' = IF backend = "memory" THEN 0 ELSE mutex
    /\ \E gfail \in FailModes(backend, "get") :
       \E got \in {StorageGet(backend, store, req_key[p], now, gfail)} :
         /\ faults + Faulty(gfail) <= MaxFaults
         /\ faults' = faults + Faulty(gfail)
         /\ count_read' = [count_read EXCEPT ![p] = UnwrapOr(got, 0)]
         /\ call_ok' = [call_ok EXCEPT ![p] = got.ok /\ gfail = "none"]
    /\ pc' = [pc EXCEPT ![p] = "read"]
    /\ storage_lock' = 0
    /\ UNCHANGED <<config, now, store, last, incs, run, lastAllow,
                   expire_time, sqlite_store, storage_module, uncleaned,
                   req_key, verdict, start_count>>

\* let current_count = storage.get(key).await.unwrap_or(0)
AdmitGet(p) ==
    /\ pc[p] = "locked"
    /\ backend = "memory" => mutex = p
    /\ mutex' = IF backend = "memory" THEN 0 ELSE mutex
    /\ \E gfail \in FailModes(backend, "get") :
       \E got \in {StorageGet(backend, store, req_key[p], now, gfail)} :
         /\ faults + Faulty(gfail) <= MaxFaults
         /\ faults' = faults + Faulty(gfail)
         /\ count_read' = [count_read EXCEPT ![p] = UnwrapOr(got, 0)]
         /\ call_ok' = [call_ok EXCEPT ![p] = got.ok /\ gfail = "none"]
    /\ pc' = [pc EXCEPT ![p] = "read"]
    /\ UNCHANGED <<config, now, store, last, incs, run, lastAllow,
                   expire_time, sqlite_store, storage_module, uncleaned,
                   storage_lock, req_key, verdict, start_count>>

AdmitDecideKeepsLock(p) ==
    /\ pc[p] = "read"
    /\ IF count_read[p] >= requests_per_second
       THEN /\ verdict' = [verdict EXCEPT ![p] = "deny"]
            /\ UNCHANGED <<store, faults, call_ok, mutex>>
            /\ UNCHANGED storage_lock
       ELSE \E ifail \in FailModes(backend, "increment") :
            \E inc \in {StorageIncrement(backend, store, req_key[p],
                                         window_size, now, ifail)} :
              /\ backend = "memory" => mutex = p
              /\ mutex' = IF backend = "memory" THEN 0 ELSE mutex
              /\ faults + Faulty(ifail) <= MaxFaults
              /\ faults' = faults + Faulty(ifail)
              /\ store' = inc.store
              /\ call_ok' = [call_ok EXCEPT ![p] =
                                @ /\ inc.ok /\ ifail = "none"]
              /\ verdict' = [verdict EXCEPT ![p] = "allow"]
              /\ storage_lock' = 0
    /\ pc' = [pc EXCEPT ![p] = "done"]
    /\ UNCHANGED <<config, now, last, incs, run, lastAllow, expire_time,
                   sqlite_store, storage_module, uncleaned, req_key,
                   count_read, start_count>>

\* the comparison, the increment of the else branch, and the return
AdmitDecide(p) ==
    /\ pc[p] = "read"
    /\ IF count_read[p] >= requests_per_second
       THEN /\ verdict' = [verdict EXCEPT ![p] = "deny"]
            /\ UNCHANGED <<store, faults, call_ok, mutex>>
       ELSE \E ifail \in FailModes(backend, "increment") :
            \E inc \in {StorageIncrement(backend, store, req_key[p],
                                         window_size, now, ifail)} :
              /\ backend = "memory" => mutex = p
              /\ mutex' = IF backend = "memory" THEN 0 ELSE mutex
              /\ faults + Faulty(ifail) <= MaxFaults
              /\ faults' = faults + Faulty(ifail)
              /\ store' = inc.store
              /\ call_ok' = [call_ok EXCEPT ![p] =
                                @ /\ inc.ok /\ ifail = "none"]
              /\ verdict' = [verdict EXCEPT ![p] = "allow"]
    /\ storage_lock' = 0
    /\ pc' = [pc EXCEPT ![p] = "done"]
    /\ UNCHANGED <<config, now, last, incs, run, lastAllow, expire_time,
                   sqlite_store, storage_module, uncleaned, req_key,
                   count_read, start_count>>

NextRace ==
    \/ \E p \in Procs : AdmitLock(p)
    \/ \E p \in Procs : MapLock(p)
    \/ \E p \in Procs : AdmitGet(p)
    \/ \E p \in Procs : AdmitDecide(p)

SpecRace == InitRace /\ [][NextRace]_vars

\* The same callers under a scheduler that lets some caller that can take a
\* step take one: locks are granted and backend calls return.
SpecRaceFair == SpecRace /\ WF_vars(NextRace)

\* The callers that ask about key k.
Callers(k) == {p \in Procs : req_key[p] = k}

\* ------------------------------------------------------------- the two RedisStorage::increment
\* The repository holds two RedisStorage: storage/redis.rs sends INCR and
\* EXPIRE as one MULTI/EXEC unit; storage.rs sends INCR, then EXPIRE, as two
\* commands on one connection, each followed by `?`.
\* A key on which no expiry is set is served for ever: its deadline is one no
\* clock of the model reaches.
NoExpiry == MaxTime + MaxWindow + 1

\* INCR key: adds 1 and leaves the expiry alone; creates the key at 1, with no
\* expiry, when the server does not serve it.
RedisINCR(e, t) ==
    IF Live(e, t) THEN [e EXCEPT !.count = @ + 1] ELSE Counter(1, NoExpiry)

\* EXPIRE key seconds: sets the deadline of a key the server serves.
RedisEXPIRE(e, seconds, t) ==
    IF Live(e, t) THEN [e EXCEPT !.expire_at = t + seconds] ELSE e

InitRedis ==
    /\ backend = "redis"
    /\ requests_per_second = 1
    /\ window_size \in Windows
    /\ now = 0
    /\ store = EmptyStore
    /\ last = NoCall
    /\ incs = [k \in Keys |-> 0]
    /\ faults = 0
    /\ run = [k \in Keys |-> 0]
    /\ lastAllow = [k \in Keys |-> -1]
    /\ pc = [p \in Procs |-> "start"]
    /\ expire_time = [p \in Procs |-> 0]
    /\ mutex = 0
    /\ sqlite_store = EmptyStore
    /\ uncleaned = EmptyStore
    /\ storage_module \in {"storage/redis.rs", "storage.rs"}
    /\ storage_lock = 0
    /\ req_key \in [Procs -> Keys]
    /\ count_read = [p \in Procs |-> 0]
    /\ verdict = [p \in Procs |-> "none"]
    /\ call_ok = [p \in Procs |-> TRUE]
    /\ start_count = [k \in Keys |-> 0]

\* storage/redis.rs: the atomic pipeline
PipelineIncrement(p) ==
    /\ storage_module = "storage/redis.rs"
    /\ pc[p] = "start"
    /\ \E fail \in FailModes(backend, "increment") :
       \E r \in {RedisIncrement(store, req_key[p], window_size, now, fail)} :
         /\ faults + Faulty(fail) <= MaxFaults
         /\ faults' = faults + Faulty(fail)
         /\ store' = r.store
         /\ call_ok' = [call_ok EXCEPT ![p] = r.ok]
    /\ pc' = [pc EXCEPT ![p] = "done"]
    /\ UNCHANGED <<config, now, last, incs, run, lastAllow, expire_time,
                   mutex, sqlite_store, storage_module, uncleaned, storage_lock, req_key,
                   count_read, verdict, start_count>>

\* storage.rs: redis::cmd("INCR").arg(key).query_async(&mut conn).await?
LegacyIncr(p) ==
    /\ storage_module = "storage.rs"
    /\ pc[p] = "start"
    /\ \E fail \in FailModes(backend, "increment") :
         /\ faults + Faulty(fail) <= MaxFaults
         /\ faults' = faults + Faulty(fail)
         /\ IF fail # "none"
            THEN /\ UNCHANGED store
                 /\ call_ok' = [call_ok EXCEPT ![p] = FALSE]
                 /\ pc' = [pc EXCEPT ![p] = "done"]
            ELSE /\ store' = [store EXCEPT ![req_key[p]] = RedisINCR(@, now)]
                 /\ UNCHANGED call_ok
                 /\ pc' = [pc EXCEPT ![p] = "incremented"]
    /\ UNCHANGED <<config, now, last, incs, run, lastAllow, expire_time,
                   mutex, sqlite_store, storage_module, uncleaned, storage_lock, req_key,
                   count_read, verdict, start_count>>

\* storage.rs: redis::cmd("EXPIRE").arg(key).arg(expire).query_async(..).await?
LegacyExpire(p) ==
    /\ storage_module = "storage.rs"
    /\ pc[p] = "incremented"
    /\ \E fail \in FailModes(backend, "increment") :
         /\ faults + Faulty(fail) <= MaxFaults
         /\ faults' = faults + Faulty(fail)
         /\ IF fail # "none"
            THEN /\ UNCHANGED store
                 /\ call_ok' = [call_ok EXCEPT ![p] = FALSE]
            ELSE /\ store' = [store EXCEPT ![req_key[p]] =
                                RedisEXPIRE(@, window_size, now)]
                 /\ UNCHANGED call_ok
    /\ pc' = [pc EXCEPT ![p] = "done"]
    /\ UNCHANGED <<config, now, last, incs, run, lastAllow, expire_time,
                   mutex, sqlite_store, storage_module, uncleaned, storage_lock, req_key,
                   count_read, verdict, start_count>>

NextRedis ==
    \/ ConcTick
    \/ \E p \in Procs : PipelineIncrement(p)
    \/ \E p \in Procs : LegacyIncr(p)
    \/ \E p \in Procs : LegacyExpire(p)

SpecRedis == InitRedis /\ [][NextRedis]_vars

\* ------------------------------------------------------------- memory and SQLite side by side
\* One sequence of get, increment, delete and cleanup_expired calls and clock
\* advances, applied to a MemoryStorage (store) and to a SQLiteStorage
\* (sqlite_store) that both start empty; neither call meets an I/O error.
InitEquiv ==
    /\ backend = "memory"
    /\ requests_per_second = 1
    /\ window_size = 1
    /\ now = 0
    /\ store = EmptyStore
    /\ last = NoCall
    /\ incs = [k \in Keys |-> 0]
    /\ faults = 0
    /\ run = [k \in Keys |-> 0]
    /\ lastAllow = [k \in Keys |-> -1]
    /\ pc = [p \in Procs |-> "idle"]
    /\ expire_time = [p \in Procs |-> 0]
    /\ mutex = 0
    /\ InitOthers

BothGet(k) ==
    /\ last' = [NoCall EXCEPT !.op = "get", !.key = k,
                              !.ok = MemoryGet(store, k, now).ok,
                              !.val = MemoryGet(store, k, now).val,
                              !.sqlite = SQLiteGet(sqlite_store, k, now,
                                                   "none"),
                              !.pre = store[k]]
    /\ UNCHANGED <<config, now, store, incs, faults, run, lastAllow, pc,
                   expire_time, mutex, others>>

BothIncrement(k) ==
    \E expire \in Windows :
      /\ Live(store[k], now) => store[k].count < MaxCount
      /\ store' = MemoryIncrement(store, k, expire, now).store
      /\ sqlite_store' = SQLiteIncrement(sqlite_store, k, expire, now,
                                         "none").store
      /\ last' = [NoCall EXCEPT !.op = "increment", !.key = k,
                                !.expire = expire, !.pre = store[k]]
      /\ UNCHANGED <<config, now, incs, faults, run, lastAllow, pc,
                     expire_time, mutex, storage_module, uncleaned, engine>>

BothDelete(k) ==
    /\ store' = MemoryDelete(store, k).store
    /\ sqlite_store' = SQLiteDelete(sqlite_store, k, "none").store
    /\ last' = [NoCall EXCEPT !.op = "delete", !.key = k, !.pre = store[k]]
    /\ UNCHANGED <<config, now, incs, faults, run, lastAllow, pc,
                   expire_time, mutex, storage_module, uncleaned, engine>>

BothCleanupExpired ==
    /\ store' = MemoryCleanupExpired(store, now).store
    /\ sqlite_store' = SQLiteCleanupExpired(sqlite_store, now, "none").store
    /\ last' = [NoCall EXCEPT !.op = "cleanup_expired"]
    /\ UNCHANGED <<config, now, incs, faults, run, lastAllow, pc,
                   expire_time, mutex, storage_module, uncleaned, engine>>

NextEquiv ==
    \/ Tick
    \/ \E k \in Keys : BothGet(k)
    \/ \E k \in Keys : BothIncrement(k)
    \/ \E k \in Keys : BothDelete(k)
    \/ BothCleanupExpired

SpecEquiv == InitEquiv /\ [][NextEquiv]_vars

\* ------------------------------------------------------------- the in-memory map with and without cleanup
\* Two MemoryStorage maps that start empty are given the same get, increment,
\* delete and admit calls at the same instants; cleanup_expired is run, at any
\* point, on store only.
InitMemory ==
    /\ backend = "memory"
    /\ requests_per_second \in Limits
    /\ window_size \in Windows
    /\ now = 0
    /\ store = EmptyStore
    /\ last = NoCall
    /\ incs = [k \in Keys |-> 0]
    /\ faults = 0
    /\ run = [k \in Keys |-> 0]
    /\ lastAllow = [k \in Keys |-> -1]
    /\ pc = [p \in Procs |-> "idle"]
    /\ expire_time = [p \in Procs |-> 0]
    /\ mutex = 0
    /\ InitOthers

TwinGet(k) ==
    /\ last' = [NoCall EXCEPT !.op = "get", !.key = k,
                              !.val = MemoryGet(store, k, now).val,
                              !.pre = store[k],
                              !.twin.val = MemoryGet(uncleaned, k, now).val,
                              !.twin.pre = uncleaned[k]]
    /\ UNCHANGED <<config, now, store, incs, faults, run, lastAllow, pc,
                   expire_time, mutex, others>>

TwinIncrement(k) ==
    \E expire \in Windows :
      /\ Live(store[k], now) => store[k].count < MaxCount
      /\ Live(uncleaned[k], now) => uncleaned[k].count < MaxCount
      /\ store' = MemoryIncrement(store, k, expire, now).store
      /\ uncleaned' = MemoryIncrement(uncleaned, k, expire, now).store
      /\ last' = [NoCall EXCEPT !.op = "increment", !.key = k,
                                !.expire = expire, !.pre = store[k],
                                !.twin.pre = uncleaned[k]]
      /\ UNCHANGED <<config, now, incs, faults, run, lastAllow, pc,
                     expire_time, mutex, sqlite_store, storage_module,
                     engine>>

TwinDelete(k) ==
    /\ store' = MemoryDelete(store, k).store
    /\ uncleaned' = MemoryDelete(uncleaned, k).store
    /\ last' = [NoCall EXCEPT !.op = "delete", !.key = k, !.pre = store[k],
                              !.twin.pre = uncleaned[k]]
    /\ UNCHANGED <<config, now, incs, faults, run, lastAllow, pc,
                   expire_time, mutex, sqlite_store, storage_module, engine>>

TwinAdmit(k) ==
    \E r \in {IsRateLimited(backend, store, k, now, requests_per_second,
                            window_size, "none", "none")} :
    \E u \in {IsRateLimited(backend, uncleaned, k, now, requests_per_second,
                            window_size, "none", "none")} :
      /\ store' = r.store
      /\ uncleaned' = u.store
      /\ last' = [NoCall EXCEPT !.op = "admit", !.key = k,
                                !.expire = window_size,
                                !.limited = r.limited, !.calls = r.calls,
                                !.pre = store[k],
                                !.twin.limited = u.limited,
                                !.twin.pre = uncleaned[k]]
      /\ UNCHANGED <<config, now, incs, faults, run, lastAllow, pc,
                     expire_time, mutex, sqlite_store, storage_module,
                     engine>>

CleanupStoreOnly ==
    /\ store' = MemoryCleanupExpired(store, now).store
    /\ last' = [NoCall EXCEPT !.op = "cleanup_expired"]
    /\ UNCHANGED <<config, now, incs, faults, run, lastAllow, pc,
                   expire_time, mutex, others>>

NextMemory ==
    \/ Tick
    \/ \E k \in Keys : TwinGet(k)
    \/ \E k \in Keys : TwinIncrement(k)
    \/ \E k \in Keys : TwinDelete(k)
    \/ \E k \in Keys : TwinAdmit(k)
    \/ CleanupStoreOnly

SpecMemory == InitMemory /\ [][NextMemory]_vars

\* What a caller can tell about a counter at instant t: a native-TTL server
\* serves nothing of a key whose deadline has passed; a row or map entry is
\* there until it is removed.
Observed(b, e, t) ==
    IF b \in {"redis", "memcached"} /\ ~Live(e, t) THEN Absent ELSE e

\* C1: with limit L >= 1 and no store errors, the i-th of the admit calls made
\* on a fresh key while its counter is live is Allow for i <= L and Deny for
\* i = L + 1, and call L + 1 leaves the stored count at L.
C1_DenyAtQuota ==
    (last.op = "admit" /\ run[last.key] > 0)
    => /\ last.limited <=> (run[last.key] > requests_per_second)
       /\ (run[last.key] <= requests_per_second /\ Live(store[last.key], now))
            => store[last.key].count = run[last.key]
       /\ run[last.key] = requests_per_second + 1
            => (store[last.key].count = requests_per_second
                /\ store[last.key] = last.pre)

C1_Witness ==
    /\ last.op = "admit"
    /\ requests_per_second >= 2
    /\ run[last.key] = requests_per_second + 1
    /\ last.limited
    /\ store[last.key].count = requests_per_second

\* C2: a denied admit call leaves the key's expire_at as it was, and an admit
\* call made window seconds or more after the key's last Allow is allowed and
\* restarts the count at 1, however many calls were denied in between.
C2_OnlyAdmittedExtendWindow ==
    [][\A k \in Keys :
         (last'.op = "admit" /\ last'.key = k /\ last'.ok)
         => /\ last'.limited => store'[k].expire_at = store[k].expire_at
            /\ (lastAllow[k] >= 0 /\ now >= lastAllow[k] + window_size)
                 => /\ ~last'.limited
                    /\ Observed(backend, store'[k], now)
                         = Observed(backend, Counter(1, now + window_size),
                                    now)]_vars

C2_Witness ==
    /\ last.op = "admit"
    /\ last.ok
    /\ ~last.limited
    /\ window_size >= 1
    /\ last.run > requests_per_second
    /\ last.pre.count = requests_per_second
    /\ last.pre.expire_at <= now
    /\ store[last.key] = Counter(1, now + window_size)

\* C3: an admit call that returns Deny issues the get and nothing else, and
\* leaves the counter of every key as it was.
C3_DenyWritesNothing ==
    [][(last'.op = "admit" /\ last'.limited)
         => (store' = store /\ last'.calls = <<"get">>)]_vars

C3_Witness ==
    /\ last.op = "admit"
    /\ last.limited
    /\ last.pre.count >= requests_per_second
    /\ \E k \in Keys \ {last.key} : Live(store[k], now)

\* C4: on every backend, a get that follows N successful increment calls on a
\* fresh key, with the counter still live at each call, returns N.
C4_MonotonicCounting ==
    (/\ last.op = "get"
     /\ last.fail = "none"
     /\ incs[last.key] > 0
     /\ Live(store[last.key], now))
    => (last.ok /\ last.val = incs[last.key])

\* C5: get on a key whose counter is expired (expire_at <= now, present or
\* not) or that was never incremented returns Ok(0): no stale count, no error.
C5_ExpiredReadsZero ==
    (last.op = "get" /\ last.fail = "none" /\ ~Live(last.pre, now))
    => (last.ok /\ last.val = 0)

\* C6: increment(key, w) on an absent or expired key leaves the counter at
\* count 1 with expire_at = now + w, whatever count the expired entry held.
C6_IncrementResetsExpired ==
    (last.op = "increment" /\ last.fail = "none" /\ ~Live(last.pre, now))
    => /\ last.ok
       /\ Observed(backend, store[last.key], now)
            = Observed(backend, Counter(1, now + last.expire), now)

C6_Witness ==
    /\ last.op = "increment"
    /\ last.fail = "none"
    /\ last.pre.present
    /\ last.pre.count >= 2
    /\ last.pre.expire_at <= now
    /\ last.expire >= 1
    /\ store[last.key] = Counter(1, now + last.expire)

\* C7: on every backend, increment(key, w) on a live counter (one that
\* successful increments built) raises its count by exactly 1 and sets
\* expire_at to now + w.
C7_IncrementBumpsLive ==
    (/\ last.op = "increment"
     /\ last.fail = "none"
     /\ Live(last.pre, now)
     /\ incs[last.key] >= 2)
    => /\ last.ok
       /\ Observed(backend, store[last.key], now)
            = Observed(backend,
                       Counter(last.pre.count + 1, now + last.expire), now)

\* C10: delete(key) succeeds on an absent, live or expired key, leaves no
\* counter for the key, get(key) then returns 0, and a second delete(key)
\* changes nothing.
C10_DeleteIdempotent ==
    (last.op = "delete" /\ last.fail = "none")
    => /\ last.ok
       /\ store[last.key] = Absent
       /\ StorageGet(backend, store, last.key, now, "none") = Ok(0)
       /\ StorageDelete(backend, store, last.key, "none")
            = [ok |-> TRUE, store |-> store]

\* C8: on the in-memory, SQL and Redis backends, the get that follows M
\* concurrent increments of one key returns M under every interleaving.
C8_NoLostUpdate ==
    (/\ backend \in {"memory", "sqlite", "mysql", "postgresql", "redis"}
     /\ AllDone
     /\ last.op = "get")
    => (last.ok /\ last.val = NumProcs)

\* C9: on the Memcached backend, the get that follows M concurrent increments
\* of a brand-new key returns at most M and at least M - 1 under every
\* interleaving of the add and increment commands.
C9_MemcachedRaceBound ==
    (backend = "memcached" /\ AllDone /\ last.op = "get")
    => (last.ok /\ last.val <= NumProcs /\ last.val >= NumProcs - 1)

C9_Witness ==
    /\ backend = "memcached"
    /\ AllDone
    /\ last.op = "get"
    /\ last.ok
    /\ last.val >= NumProcs - 1
    /\ now > 0

\* C11: a cleanup_expired call that meets no fault succeeds; on the in-memory
\* and SQL backends it removes exactly the counters with expire_at <= now and
\* leaves every other counter as it was; on Redis and Memcached it changes
\* nothing.
C11_CleanupRemovesExactlyExpired ==
    [][(last'.op = "cleanup_expired" /\ last'.fail = "none")
         => /\ last'.ok
            /\ \A k \in Keys :
                 store'[k] =
                   IF backend \in {"redis", "memcached"} THEN store[k]
                   ELSE IF store[k].present /\ store[k].expire_at <= now
                        THEN Absent
                        ELSE store[k]]_vars

\* k1 was built by successful increments and never deleted, and is gone: the
\* cleanup removed it at or after its expiry, and left the live k2 alone.
C11_Witness ==
    /\ last.op = "cleanup_expired"
    /\ last.fail = "none"
    /\ backend \in {"memory", "sqlite", "mysql", "postgresql"}
    /\ incs["k1"] > 0
    /\ store["k1"] = Absent
    /\ Live(store["k2"], now)
    /\ store["k2"].count >= 2

\* C12: a store error never becomes a Deny.  An admit call whose get fails
\* reads the count as 0, issues the increment and answers Allow; one whose
\* increment fails answers Allow; the handler's answer is one of the two
\* verdicts, never an error.
C12_FailOpen ==
    last.op = "admit"
    => /\ ~last.get_ok
            => (~last.limited /\ last.calls = <<"get", "increment">>)
       /\ ~last.inc_ok => ~last.limited
       /\ last.limited \in BOOLEAN
       /\ last.ret \in {"Ok", "Declined"}

\* The get fails on a key that is at its quota: the call is allowed and the
\* count goes past the limit.
C12_Witness ==
    /\ last.op = "admit"
    /\ last.fail = "io"
    /\ ~last.get_ok
    /\ last.inc_ok
    /\ ~last.limited
    /\ Live(last.pre, now)
    /\ last.pre.count = requests_per_second
    /\ store[last.key].count = requests_per_second + 1

\* C13: the handler sets status 429 and returns Declined exactly when the
\* decision for the remote address is Deny; on Allow it returns Ok and sets
\* no status.
C13_HandlerStatus ==
    last.op = "admit"
    => /\ last.limited
            <=> (last.status_code = TooManyRequests /\ last.ret = "Declined")
       /\ ~last.limited
            <=> (last.status_code = NewContext.status /\ last.ret = "Ok")

C13_Witness ==
    /\ last.op = "admit"
    /\ last.ok
    /\ last.limited
    /\ last.ret = "Declined"
    /\ last.status_code = TooManyRequests
    /\ lastAllow[last.key] >= 0

\* C19: an admit call issues one get, then at most one increment, and nothing
\* else: a failed get is followed by exactly one increment, a failed increment
\* by no further call, and the call adds at most 1 to the key's count.
C19_OneGetOneIncrement ==
    last.op = "admit"
    => /\ last.calls \in {<<"get">>, <<"get", "increment">>}
       /\ ~last.get_ok => last.calls = <<"get", "increment">>
       /\ ~last.inc_ok => last.calls = <<"get", "increment">>
       /\ last.limited <=> last.calls = <<"get">>
       /\ store[last.key].count <= last.pre.count + 1
       /\ last.ifail = "io" => store[last.key] = last.pre

\* The increment fails after an under-quota read: nothing was written and
\* nothing was tried again.
C19_Witness ==
    /\ last.op = "admit"
    /\ last.get_ok
    /\ ~last.inc_ok
    /\ last.ifail = "io"
    /\ last.calls = <<"get", "increment">>
    /\ Live(last.pre, now)
    /\ store[last.key] = last.pre

\* C18: the stored count is never negative, and within one live window of a
\* key the value get returns for it never goes down: a step from a state in
\* which the key is live, other than a delete of the key or the passing of its
\* expiry, does not lower what get returns.
C18_CountMonotoneInWindow ==
    [][\A k \in Keys :
         /\ store'[k].count >= 0
         /\ (/\ Live(store[k], now)
             /\ ~(last'.op = "delete" /\ last'.key = k)
             /\ ~(store'[k].present /\ store'[k].expire_at <= now'))
              => LET before == StorageGet(backend, store, k, now, "none")
                     after == StorageGet(backend, store', k, now', "none")
                 IN  (before.ok /\ after.ok) => after.val >= before.val]_vars

\* A get observes a count of 2 or more in a window that has seen the clock
\* move.
C18_Witness ==
    /\ last.op = "get"
    /\ last.ok
    /\ last.val >= 2
    /\ incs[last.key] >= 2
    /\ now > 0
    /\ Live(store[last.key], now)

\* C20: after any sequence of get, increment, delete and cleanup_expired
\* calls and clock advances applied to an empty MemoryStorage and an empty
\* SQLiteStorage alike, get returns the same result on both for every key,
\* at the instant expire_at == now too.
C20_MemoryMatchesSQLite ==
    /\ \A k \in Keys :
         MemoryGet(store, k, now) = SQLiteGet(sqlite_store, k, now, "none")
    /\ last.op = "get" => last.sqlite = Ok(last.val)

\* A get at the very instant a counter of count 2 expires: 0 on both.
C20_Witness ==
    /\ last.op = "get"
    /\ last.pre.present
    /\ last.pre.count >= 2
    /\ last.pre.expire_at = now
    /\ sqlite_store[last.key].expire_at = now
    /\ last.val = 0
    /\ last.sqlite = Ok(0)

C15_KeysDoNotSerialize ==
    \A p \in Procs : \A q \in Procs \ {p} :
      (/\ req_key[p] # req_key[q]
       /\ pc[p] \in {"locked", "read"}
       /\ pc[q] = "start")
      => ENABLED AdmitLock(q)

\* C16: every counter a Redis increment leaves in the store carries a TTL:
\* once the increment calls on a key have returned, with or without an error,
\* a counter the server serves for that key has an expiry set.
C16_RedisCounterHasTTL ==
    \A k \in Keys :
      (/\ \A p \in Callers(k) : pc[p] \in {"start", "done"}
       /\ Live(store[k], now))
      => store[k].expire_at # NoExpiry

\* C17: in a system whose requests arrive through admit, every counter whose
\* expire_at has passed is eventually removed from the backend, by the
\* server's own eviction or by a cleanup_expired run.
C17_ExpiredEventuallyRemoved ==
    \A k \in Keys :
      (Observed(backend, store[k], now).present /\ store[k].expire_at <= now)
      ~> ~Observed(backend, store[k], now).present

\* C21: the storage lock is held across the whole get-then-increment of an
\* admit call, so no two calls are inside it at once; with no store error the
\* count of every key stays within the limit in every state, and the requests
\* admitted in a key's window, earlier ones included, number at most the limit.
C21_LockSerializesAdmits ==
    /\ \A p \in Procs : pc[p] \in {"locked", "read"} <=> storage_lock = p
    /\ Cardinality({p \in Procs : pc[p] \in {"locked", "read"}}) <= 1
    /\ (\A p \in Procs : call_ok[p])
         => \A k \in Keys :
              /\ store[k].count <= requests_per_second
              /\ start_count[k]
                   + Cardinality({p \in Callers(k) : verdict[p] = "allow"})
                   <= requests_per_second

\* Every caller asked about a fresh k1: as many as the limit were allowed, the
\* rest denied.
C21_Witness ==
    /\ AllDone
    /\ \A p \in Procs : call_ok[p]
    /\ Callers("k1") = Procs
    /\ start_count["k1"] = 0
    /\ requests_per_second >= 2
    /\ requests_per_second < NumProcs
    /\ Cardinality({p \in Procs : verdict[p] = "allow"}) = requests_per_second
    /\ store["k1"].count = requests_per_second

\* C24: no admit call hangs.  The map mutex is only ever taken by the holder
\* of the storage lock, so the two are always acquired in that order; and
\* when locks are granted and backend calls return, every caller ends with a
\* verdict and both locks free.
C24_EveryCallReturns ==
    /\ [](mutex # 0 => storage_lock = mutex)
    /\ <>[](/\ AllDone
            /\ \A p \in Procs : verdict[p] \in {"allow", "deny"}
            /\ storage_lock = 0
            /\ mutex = 0)

\* On the in-memory backend every caller has returned, some allowed and some
\* denied, and both locks are free.
C24_Witness ==
    /\ backend = "memory"
    /\ AllDone
    /\ \E p \in Procs : verdict[p] = "allow"
    /\ \E p \in Procs : verdict[p] = "deny"
    /\ Cardinality({req_key[p] : p \in Procs}) = 2
    /\ storage_lock = 0
    /\ mutex = 0

\* C22: on the in-memory backend cleanup_expired cannot be observed.  A map
\* on which it was run at arbitrary points and a map on which it never was,
\* given the same calls otherwise, agree on the result of every get, on the
\* count and expire_at every increment produces, and on every admit verdict.
C22_CleanupInvisible ==
    /\ \A k \in Keys : MemoryGet(store, k, now) = MemoryGet(uncleaned, k, now)
    /\ last.op = "get" => last.val = last.twin.val
    /\ last.op = "increment" => store[last.key] = uncleaned[last.key]
    /\ last.op = "admit"
         => /\ last.limited = last.twin.limited
            /\ ~last.limited => store[last.key] = uncleaned[last.key]

\* An increment of a key whose expired counter of count 2 a cleanup had
\* removed from one map and not from the other: both now hold count 1.
C22_Witness ==
    /\ last.op = "increment"
    /\ last.pre = Absent
    /\ last.twin.pre.present
    /\ last.twin.pre.count >= 2
    /\ last.expire >= 1
    /\ store[last.key].count = 1
    /\ uncleaned[last.key] = store[last.key]

\* C23: on the in-memory backend increment(k, w), delete(k) and an admit call
\* for k leave the counter of every other key as it was, and do not change
\* the verdict an admit call for another key would get.
C23_OtherKeysUntouched ==
    [][(last'.op \in {"increment", "delete", "admit"})
         => \A k \in Keys \ {last'.key} :
              /\ store'[k] = store[k]
              /\ IsRateLimited(backend, store', k, now', requests_per_second,
                               window_size, "none", "none").limited
                   = IsRateLimited(backend, store, k, now,
                                   requests_per_second, window_size, "none",
                                   "none").limited]_vars

\* A delete of a live key while the other key sits at its quota.
C23_Witness ==
    /\ last.op = "delete"
    /\ Live(last.pre, now)
    /\ store[last.key] = Absent
    /\ \E k \in Keys \ {last.key} :
         /\ Live(store[k], now)
         /\ store[k].count >= requests_per_second

\* C25: with window_size = 0 (and a limit of at least 1) every counter an
\* admit call writes has expire_at equal to the instant of the call, so no
\* stored counter is ever live, get returns 0 for every key, and every admit
\* call answers Allow: a zero window switches rate limiting off.
C25_ZeroWindowAllowsAll ==
    /\ [](window_size = 0
            => /\ \A k \in Keys :
                    /\ ~Live(store[k], now)
                    /\ StorageGet(backend, store, k, now, "none").val = 0
               /\ last.op = "admit" => ~last.limited /\ last.ret = "Ok")
    /\ [][(window_size = 0 /\ backend = "memory")
            => \A k \in Keys :
                 store'[k] # store[k] => store'[k] = Counter(1, now')]_vars

\* A second request for a key within the second in which the first one was
\* counted, under a limit of 1: it is allowed and the counter is 1 again.
C25_Witness ==
    /\ window_size = 0
    /\ backend = "memory"
    /\ requests_per_second = 1
    /\ last.op = "admit"
    /\ last.ok
    /\ last.pre = Counter(1, now)
    /\ ~last.limited
    /\ store[last.key] = Counter(1, now)

====
